---- MODULE Spec2Model ----
(***************************************************************************)
(* A model of the nozzle case generator: the parabolic contour engine      *)
(* (base/nozzle/parabolic_nozzle.py), the wedge mesh builder               *)
(* (base/templates/openfoam/system/block_mesh.py), the nozzle config       *)
(* loader (base/config_loader/nozzle_config.py), the case assembly         *)
(* (base/preparation/case_structure.py) and the section composition        *)
(* framework (base/nozzle/nozzle.py).                                      *)
(*                                                                         *)
(* Numbers.  The program computes in IEEE doubles.  The model computes in  *)
(* exact extended rationals: a number is a pair <<n, d>> in lowest terms   *)
(* with d >= 0; d = 0 encodes the non-finite doubles, <<1, 0>> = +inf,     *)
(* <<-1, 0>> = -inf, <<0, 0>> = NaN.  Rounding and the sign of zero are    *)
(* not modelled.  Shape powers range over small integers (the defaults     *)
(* 0.6 and 0.8 have no exact rational powers).  tan(15 deg) is the         *)
(* rational 67/250.  np.sqrt of a non-negative rational is rounded down to *)
(* a multiple of 1 / (d * SqrtScale), d the denominator of its argument;   *)
(* perfect squares are exact and a negative argument gives NaN.            *)
(***************************************************************************)
EXTENDS Integers, Sequences, FiniteSets, TLC

VARIABLES
    nozzle,     \* the nozzle object: a ParabolicNozzle (params, L_convergent,
                \* L_divergent) or a Nozzle (params, sections)
    call,       \* the operation called last and its arguments
    ret,        \* what that call returned, or the exception it raised
    cfg,        \* NozzleConfigLoader.config: the parsed nozzle_params.yaml
    pc,         \* CaseBuilder.build: the statement to execute next
    dirs,       \* directories of the case directory, in creation order
    files,      \* files written into the case directory, in write order
    trace,      \* the calls made on the loaders and generators so far, in order
    error       \* the exception that ended the run, "" while there is none

vars == <<nozzle, call, ret, cfg, pc, dirs, files, trace, error>>

----------------------------------------------------------------------------
(* Bounds of the model *)

MaxRadius == 3          \* radii are drawn from 0 .. MaxRadius
MaxPower == 2           \* shape powers are drawn from -MaxNegPower .. MaxPower
MaxNegPower == 1
MaxPoints == 8          \* n_points is drawn from -NegPoints .. MaxPoints
NegPoints == 3
MaxBuildAxial == 5      \* block_mesh.n_axial of a built case is 0, 1 or MaxBuildAxial
MaxX == 3               \* a section's start_x and end_x are drawn from 0 .. MaxX
MaxSectionPoints == 3   \* a section's n_points is drawn from 2 .. MaxSectionPoints
MaxSections == 3        \* a Nozzle receives at most MaxSections sections
SqrtScale == 100        \* np.sqrt is rounded down to 1 / (d * SqrtScale)

----------------------------------------------------------------------------
(* Double arithmetic, as exact extended rationals *)

Abs(i) == IF i < 0 THEN -i ELSE i

Sgn(i) == IF i > 0 THEN 1 ELSE IF i < 0 THEN -1 ELSE 0

RECURSIVE GCD(_, _)
GCD(a, b) == IF b = 0 THEN a ELSE GCD(b, a % b)

Norm(n, d) ==
    IF d = 0 THEN <<Sgn(n), 0>>
    ELSE LET g == GCD(Abs(n), Abs(d))
         IN  <<(Sgn(d) * n) \div g, Abs(d) \div g>>

I(i) == <<i, 1>>

NaN == <<0, 0>>
PosInf == <<1, 0>>
NegInf == <<-1, 0>>

IsNaN(a) == a = NaN
IsInf(a) == a[2] = 0 /\ a[1] # 0
IsFinite(a) == a[2] # 0

FNeg(a) == <<-a[1], a[2]>>

FAdd(a, b) ==
    IF IsNaN(a) \/ IsNaN(b) THEN NaN
    ELSE IF IsInf(a) /\ IsInf(b) THEN (IF a = b THEN a ELSE NaN)
    ELSE IF IsInf(a) THEN a
    ELSE IF IsInf(b) THEN b
    ELSE Norm(a[1] * b[2] + b[1] * a[2], a[2] * b[2])

FSub(a, b) == FAdd(a, FNeg(b))

FMul(a, b) ==
    IF IsNaN(a) \/ IsNaN(b) THEN NaN
    ELSE IF IsInf(a) \/ IsInf(b)
         THEN <<Sgn(a[1]) * Sgn(b[1]), 0>>      \* inf * 0 = NaN
    ELSE Norm(a[1] * b[1], a[2] * b[2])

\* numpy's true division: x / 0 is +-inf, 0 / 0 and inf / inf are NaN, no exception
FDiv(a, b) ==
    IF IsNaN(a) \/ IsNaN(b) THEN NaN
    ELSE IF IsInf(b) THEN (IF IsInf(a) THEN NaN ELSE I(0))
    ELSE IF IsInf(a) THEN <<a[1] * (IF b[1] < 0 THEN -1 ELSE 1), 0>>
    ELSE Norm(a[1] * b[2], a[2] * b[1])

FLess(a, b) ==
    /\ ~IsNaN(a)
    /\ ~IsNaN(b)
    /\ a # b
    /\ IF IsInf(a) THEN a = NegInf
       ELSE IF IsInf(b) THEN b = PosInf
       ELSE a[1] * b[2] < b[1] * a[2]

FLeq(a, b) == ~IsNaN(a) /\ ~IsNaN(b) /\ (a = b \/ FLess(a, b))

RECURSIVE FPowNat(_, _)
FPowNat(a, k) == IF k = 0 THEN I(1) ELSE FMul(a, FPowNat(a, k - 1))

\* numpy's power: x ** 0 is 1 for every x (NaN included), 0 ** p is +inf for p < 0
FPow(a, p) ==
    IF p = 0 THEN I(1)
    ELSE IF p > 0 THEN FPowNat(a, p)
    ELSE FDiv(I(1), FPowNat(a, -p))

\* the largest k in lo .. hi with k * k <= n
RECURSIVE ISqrtIn(_, _, _)
ISqrtIn(n, lo, hi) ==
    IF lo >= hi THEN lo
    ELSE LET mid == (lo + hi + 1) \div 2
         IN  IF mid * mid <= n THEN ISqrtIn(n, mid, hi) ELSE ISqrtIn(n, lo, mid - 1)

ISqrt(n) == ISqrtIn(n, 0, IF n < 46340 THEN n ELSE 46340)

\* np.sqrt: NaN (and a warning, no exception) for a negative argument
FSqrt(a) ==
    IF IsNaN(a) THEN NaN
    ELSE IF a[1] < 0 THEN NaN
    ELSE IF IsInf(a) THEN PosInf
    ELSE Norm(ISqrt(a[1] * a[2] * SqrtScale * SqrtScale), a[2] * SqrtScale)

----------------------------------------------------------------------------
(* Python and numpy primitives *)

\* an exception raised instead of a contour
Raised(kind) == [status |-> kind, x |-> <<>>, r |-> <<>>]

\* int(n * 0.4): the product truncated toward zero
ConvShareNum == 2
ConvShareDen == 5
IntTrunc(n, d) == IF n >= 0 THEN n \div d ELSE -((-n) \div d)

\* np.linspace(start, stop, num) for num >= 0 (num < 0 raises ValueError, see Section)
Linspace(start, stop, num) ==
    [k \in 1 .. (IF num > 0 THEN num ELSE 0) |->
        IF num = 1 THEN start
        ELSE FAdd(start, FDiv(FMul(I(k - 1), FSub(stop, start)), I(num - 1)))]

\* seq[1:]
DropFirst(s) == IF Len(s) = 0 THEN <<>> ELSE Tail(s)

\* the element of a one-element set: an expression over a local variable, the
\* variable ranging over the set of the one value assigned to it
Only(S) == CHOOSE y \in S : TRUE

----------------------------------------------------------------------------
(* ParabolicNozzle *)

TanDeg15 == <<67, 250>>
ConvLengthFactor == <<3, 2>>
DivLengthFactor == <<4, 5>>

ParabolicNozzleParams(throat, exit, chamber, cpow, dpow) ==
    [throat_radius |-> I(throat), exit_radius |-> I(exit),
     chamber_radius |-> I(chamber),
     convergent_power |-> cpow, divergent_power |-> dpow]

\* ParabolicNozzle.__init__
ParabolicNozzle(params) ==
    [params |-> params,
     L_convergent |-> FMul(ConvLengthFactor, params.chamber_radius),
     L_divergent |->
        FDiv(FMul(DivLengthFactor,
                  FSub(params.exit_radius, params.throat_radius)),
             TanDeg15)]

\* the mutated convergent radius: the interpolation runs from the throat radius
ConvergentRadiusFromThroat(self, t) ==
    FAdd(self.params.throat_radius,
         FMul(FSub(self.params.chamber_radius, self.params.throat_radius),
              FPow(t, self.params.convergent_power)))

\* r = chamber_radius - (chamber_radius - throat_radius) * t ** convergent_power
ConvergentRadius(self, t) ==
    FSub(self.params.chamber_radius,
         FMul(FSub(self.params.chamber_radius, self.params.throat_radius),
              FPow(t, self.params.convergent_power)))

\* r = throat_radius + (exit_radius - throat_radius) * t ** divergent_power
DivergentRadius(self, t) ==
    FAdd(self.params.throat_radius,
         FMul(FSub(self.params.exit_radius, self.params.throat_radius),
              FPow(t, self.params.divergent_power)))

\* ParabolicNozzle._convergent_section
ConvergentSection(self, n_points) ==
    IF n_points < 0 THEN Raised("ValueError")
    ELSE LET x == Linspace(FNeg(self.L_convergent), I(0), n_points)
             t == [k \in 1 .. Len(x) |->
                      FDiv(FAdd(x[k], self.L_convergent), self.L_convergent)]
         IN  [status |-> "ok", x |-> x,
              r |-> [k \in 1 .. Len(x) |-> ConvergentRadius(self, t[k])]]

\* ParabolicNozzle._divergent_section
DivergentSection(self, n_points) ==
    IF n_points < 0 THEN Raised("ValueError")
    ELSE LET x == Linspace(I(0), self.L_divergent, n_points)
             t == [k \in 1 .. Len(x) |-> FDiv(x[k], self.L_divergent)]
         IN  [status |-> "ok", x |-> x,
              r |-> [k \in 1 .. Len(x) |-> DivergentRadius(self, t[k])]]

NConv(n_points) == IntTrunc(n_points * ConvShareNum, ConvShareDen)

NDiv(n_points) == n_points - NConv(n_points)

\* the mutated concatenation: the divergent branch keeps its first point
DivergentTailKeepsFirst(s) == s

\* the divergent branch as it enters the concatenation: x_div[1:], r_div[1:]
DivergentTail(s) == DropFirst(s)

\* ParabolicNozzle.generate_contour
GenerateContour(self, n_points) ==
    LET conv == ConvergentSection(self, NConv(n_points))
        div == DivergentSection(self, NDiv(n_points))
    IN  IF conv.status # "ok" THEN conv
        ELSE IF div.status # "ok" THEN div
        ELSE [status |-> "ok",
              x |-> conv.x \o DivergentTail(div.x),
              r |-> conv.r \o DivergentTail(div.r)]

\* ParabolicNozzle.get_outer_wall
GetOuterWall(self, n_points) == GenerateContour(self, n_points)

----------------------------------------------------------------------------
(* Wedge mesh builder *)

\* cos and sin of half the default wedge angle of 5 degrees
CosThetaHalf == <<999, 1000>>
SinThetaHalf == <<11, 250>>

\* the BlockMeshParams the calls are made with: n_radial and the two gradings
MeshParamChoices ==
    { [n_radial |-> 50, axial_grading |-> 1, radial_grading |-> 1],
      [n_radial |-> 2,  axial_grading |-> 2, radial_grading |-> 3] }

BlockMeshParams(n_axial, choice) ==
    [n_axial |-> n_axial, n_radial |-> choice.n_radial,
     axial_grading |-> choice.axial_grading,
     radial_grading |-> choice.radial_grading]

\* an exception raised instead of a mesh description
MeshRaised(kind) ==
    [status |-> kind, verts |-> <<>>, blocks |-> <<>>, inlet |-> <<>>,
     outlet |-> <<>>, wall |-> <<>>, wedge0 |-> <<>>, wedge1 |-> <<>>]

\* an index recorded one too high: the length after the append
NextIndexAfterAppend(verts) == Len(verts) + 1

\* len(verts): the index (from 0) of the vertex appended next
NextIndex(verts) == Len(verts)

\* the axis vertex of a station, the same on both planes
AxisPoint(xi) == <<xi, I(0), I(0)>>

\* wall vertices that are not mirrored: z = +r*s on both planes
WallPointOneSided(xi, ri, plane) ==
    <<xi, FMul(ri, CosThetaHalf), FMul(ri, SinThetaHalf)>>

\* the wall vertex of a station on plane 0 (z = -r*s) or plane 1 (z = +r*s)
WallPoint(xi, ri, plane) ==
    <<xi, FMul(ri, CosThetaHalf),
      IF plane = 0 THEN FMul(FNeg(ri), SinThetaHalf) ELSE FMul(ri, SinThetaHalf)>>

\* one pass of the loop of _wedge_points over station i (1-based) of the contour
RECURSIVE WedgeLoop(_, _, _, _)
WedgeLoop(x, r, i, acc) ==
    IF i > Len(x) THEN acc
    ELSE LET v1 == Append(acc.verts, AxisPoint(x[i]))
             v2 == Append(v1, WallPoint(x[i], r[i], 0))
             v3 == Append(v2, AxisPoint(x[i]))
             v4 == Append(v3, WallPoint(x[i], r[i], 1))
         IN  WedgeLoop(x, r, i + 1,
                 [verts |-> v4,
                  a0 |-> Append(acc.a0, NextIndex(acc.verts)),
                  w0 |-> Append(acc.w0, NextIndex(v1)),
                  a1 |-> Append(acc.a1, NextIndex(v2)),
                  w1 |-> Append(acc.w1, NextIndex(v3))])

\* _wedge_points: the vertices and the four index arrays (indices count from 0)
WedgePoints(x, r) ==
    WedgeLoop(x, r, 1,
        [verts |-> <<>>, a0 |-> <<>>, w0 |-> <<>>, a1 |-> <<>>, w1 |-> <<>>])

\* a hex block whose second vertex stays on station i
BlockAxisNotAdvanced(wp, params, i) ==
    [v |-> <<wp.a0[i], wp.a0[i], wp.w0[i + 1], wp.w0[i],
             wp.a1[i], wp.a1[i + 1], wp.w1[i + 1], wp.w1[i]>>,
     cells |-> <<1, params.n_radial, 1>>,
     grading |-> <<params.axial_grading, params.radial_grading, 1>>]

\* a hex block whose plane-0 wall vertices are listed in the other order
BlockWallSwapped(wp, params, i) ==
    [v |-> <<wp.a0[i], wp.a0[i + 1], wp.w0[i], wp.w0[i + 1],
             wp.a1[i], wp.a1[i + 1], wp.w1[i + 1], wp.w1[i]>>,
     cells |-> <<1, params.n_radial, 1>>,
     grading |-> <<params.axial_grading, params.radial_grading, 1>>]

\* the hex block of segment i (1-based): stations i and i + 1
Block(wp, params, i) ==
    [v |-> <<wp.a0[i], wp.a0[i + 1], wp.w0[i + 1], wp.w0[i],
             wp.a1[i], wp.a1[i + 1], wp.w1[i + 1], wp.w1[i]>>,
     cells |-> <<1, params.n_radial, 1>>,
     grading |-> <<params.axial_grading, params.radial_grading, 1>>]

\* an inlet face that lists one wall vertex twice
InletFaceRepeatsVertex(wp) == <<wp.a0[1], wp.w1[1], wp.w1[1], wp.w0[1]>>

InletFace(wp) == <<wp.a0[1], wp.a1[1], wp.w1[1], wp.w0[1]>>

\* an outlet face taken at the first station instead of the last
OutletFaceAtFirstStation(wp, j) == <<wp.a0[1], wp.w0[1], wp.w1[1], wp.a1[1]>>

OutletFace(wp, j) == <<wp.a0[j], wp.w0[j], wp.w1[j], wp.a1[j]>>

\* a wall face that takes one axis vertex in place of a wall vertex
WallFaceWithAxisVertex(wp, i) == <<wp.w0[i], wp.w0[i + 1], wp.a1[i + 1], wp.w1[i]>>

WallFace(wp, i) == <<wp.w0[i], wp.w0[i + 1], wp.w1[i + 1], wp.w1[i]>>

\* a wedge0 face built from the plane-1 index arrays
Wedge0FaceOnPlane1(wp, i) == <<wp.a1[i], wp.a1[i + 1], wp.w1[i + 1], wp.w1[i]>>

Wedge0Face(wp, i) == <<wp.a0[i], wp.a0[i + 1], wp.w0[i + 1], wp.w0[i]>>

\* the mutated wedge1 face: wound like the wedge0 face
Wedge1FaceSameWinding(wp, i) == <<wp.a1[i], wp.a1[i + 1], wp.w1[i + 1], wp.w1[i]>>

Wedge1Face(wp, i) == <<wp.a1[i + 1], wp.a1[i], wp.w1[i], wp.w1[i + 1]>>

\* generate_block_mesh_dict: the sections of the returned text, or the exception
GenerateBlockMeshDict(self, params) ==
    Only({ IF c.status # "ok" THEN MeshRaised(c.status)
           ELSE IF Len(c.x) = 0 THEN MeshRaised("IndexError")
           ELSE Only({ [status |-> "ok",
                        verts |-> wp.verts,
                        blocks |-> [i \in 1 .. (Len(c.x) - 1) |->
                                       Block(wp, params, i)],
                        inlet |-> <<InletFace(wp)>>,
                        outlet |-> <<OutletFace(wp, Len(c.x))>>,
                        wall |-> [i \in 1 .. (Len(c.x) - 1) |-> WallFace(wp, i)],
                        wedge0 |-> [i \in 1 .. (Len(c.x) - 1) |->
                                       Wedge0Face(wp, i)],
                        wedge1 |-> [i \in 1 .. (Len(c.x) - 1) |->
                                       Wedge1Face(wp, i)]] :
                       wp \in {WedgePoints(c.x, c.r)} }) :
           c \in {GetOuterWall(self, params.n_axial + 1)} })

----------------------------------------------------------------------------
(* NozzleConfigLoader *)

Absent == -1    \* marks a key that the YAML section does not hold

\* the 'nozzle' section of nozzle_params.yaml: a dict, here a function on its keys
NozzleSection(type, throat, exit, chamber, power) ==
    LET D == (IF type # "" THEN {"type"} ELSE {})
             \cup (IF throat # Absent THEN {"throat_radius"} ELSE {})
             \cup (IF exit # Absent THEN {"exit_radius"} ELSE {})
             \cup (IF chamber # Absent THEN {"chamber_radius"} ELSE {})
             \cup {"parabolic"}
    IN  [k \in D |->
            CASE k = "type" -> type
              [] k = "throat_radius" -> throat
              [] k = "exit_radius" -> exit
              [] k = "chamber_radius" -> chamber
              [] k = "parabolic" ->
                    [convergent_power |-> power, divergent_power |-> power]]

\* config.get('nozzle', {}) of a file without a 'nozzle' section
EmptySection == [k \in {} |-> 0]

\* NozzleConfigLoader.get_nozzle_config
GetNozzleConfig(config) == config.nozzle

NoNozzle == [status |-> "none"]

\* NozzleConfigLoader.get_parabolic_nozzle_params
GetParabolicNozzleParams(config) ==
    LET nozzle_config == GetNozzleConfig(config)
        has(k) == k \in DOMAIN nozzle_config
        nozzle_type == IF has("type") THEN nozzle_config["type"] ELSE "parabolic"
    IN  IF DOMAIN nozzle_config = {} THEN [status |-> "ValueError"]
        ELSE IF nozzle_type # "parabolic" THEN [status |-> "ValueError"]
        ELSE IF ~has("throat_radius") \/ ~has("exit_radius")
                \/ ~has("chamber_radius") THEN [status |-> "KeyError"]
        ELSE [status |-> "ok",
              params |-> ParabolicNozzleParams(
                  nozzle_config["throat_radius"], nozzle_config["exit_radius"],
                  nozzle_config["chamber_radius"],
                  nozzle_config["parabolic"].convergent_power,
                  nozzle_config["parabolic"].divergent_power)]

\* NozzleConfigLoader.create_nozzle
CreateNozzle(config) ==
    LET p == GetParabolicNozzleParams(config)
    IN  IF p.status # "ok" THEN [status |-> p.status, nozzle |-> NoNozzle]
        ELSE [status |-> "ok", nozzle |-> ParabolicNozzle(p.params)]

\* NozzleConfigLoader.validate_config: "ok", or the ValueError and the fields it names
ValidateConfig(config) ==
    LET nozzle_config == GetNozzleConfig(config)
        required == <<"type", "throat_radius", "exit_radius", "chamber_radius">>
        missing == SelectSeq(required, LAMBDA k : k \notin DOMAIN nozzle_config)
    IN  IF missing # <<>> THEN [status |-> "ValueError", fields |-> missing]
        ELSE IF nozzle_config["throat_radius"] >= nozzle_config["exit_radius"]
             THEN [status |-> "ValueError",
                   fields |-> <<"throat_radius", "exit_radius">>]
        ELSE IF nozzle_config["throat_radius"] >= nozzle_config["chamber_radius"]
             THEN [status |-> "ValueError",
                   fields |-> <<"throat_radius", "chamber_radius">>]
        ELSE [status |-> "ok", fields |-> <<>>]

----------------------------------------------------------------------------
(* The section composition framework (base/nozzle/nozzle.py).  A section   *)
(* is a record of its class (kind), its SectionParameters and the fields   *)
(* its constructor stores.                                                 *)

SectionParameters(start_x, end_x, start_r, end_r, n_points) ==
    [start_x |-> start_x, end_x |-> end_x,
     start_r |-> start_r, end_r |-> end_r, n_points |-> n_points]

\* LinearSection.__init__: a division of Python floats, which raises on a zero
\* divisor
LinearSection(params) ==
    IF FSub(params.end_x, params.start_x) = I(0)
    THEN [status |-> "ZeroDivisionError"]
    ELSE [status |-> "ok",
          section |->
            [kind |-> "Linear", params |-> params,
             slope |-> FDiv(FSub(params.end_r, params.start_r),
                            FSub(params.end_x, params.start_x))]]

\* CircularArcSection.__init__
CircularArcSection(params, radius_of_curvature, convex) ==
    [status |-> "ok",
     section |-> [kind |-> "CircularArc", params |-> params,
                  R_c |-> I(radius_of_curvature), convex |-> convex]]

\* ParabolicSection.__init__
ParabolicSection(params, curvature) ==
    [status |-> "ok",
     section |-> [kind |-> "Parabolic", params |-> params,
                  curvature |-> curvature]]

\* HermiteSection.__init__
HermiteSection(params, start_slope, end_slope) ==
    [status |-> "ok",
     section |-> [kind |-> "Hermite", params |-> params,
                  start_slope |-> I(start_slope), end_slope |-> I(end_slope)]]

\* LinearSection.get_radius_function: r_func(x)
LinearRadius(self, x) ==
    FAdd(self.params.start_r, FMul(self.slope, FSub(x, self.params.start_x)))

\* CircularArcSection.get_radius_function: r_func(x); the chord and the sagitta
\* h computed before it are used nowhere, and np.sqrt raises nothing
CircularArcRadius(self, x) ==
    LET dx == FSub(self.params.end_x, self.params.start_x)
        dr == FSub(self.params.end_r, self.params.start_r)
        sign == IF self.convex THEN I(1) ELSE I(-1)
        t == FDiv(FSub(x, self.params.start_x), dx)
        x_local == FMul(t, dx)
        R2 == FMul(self.R_c, self.R_c)
        off == FSub(x_local, FDiv(dx, I(2)))
        mid == FDiv(dx, I(2))
    IN  FSub(FAdd(FAdd(self.params.start_r, FMul(t, dr)),
                  FMul(sign, FSqrt(FSub(R2, FMul(off, off))))),
             FMul(sign, FSqrt(FSub(R2, FMul(mid, mid)))))

\* ParabolicSection.get_radius_function: r_func(x)
ParabolicRadius(self, x) ==
    LET t == FDiv(FSub(x, self.params.start_x),
                  FSub(self.params.end_x, self.params.start_x))
    IN  FAdd(self.params.start_r,
             FMul(FSub(self.params.end_r, self.params.start_r),
                  FPow(t, self.curvature)))

\* the Hermite basis functions
H00(t) == FAdd(FSub(FMul(I(2), FPow(t, 3)), FMul(I(3), FPow(t, 2))), I(1))

\* the mutated basis function: t ** 3 - t ** 2 + t
H10WrongCoefficient(t) == FAdd(FSub(FPow(t, 3), FPow(t, 2)), t)

H10(t) == FAdd(FSub(FPow(t, 3), FMul(I(2), FPow(t, 2))), t)

H01(t) == FAdd(FMul(I(-2), FPow(t, 3)), FMul(I(3), FPow(t, 2)))

H11(t) == FSub(FPow(t, 3), FPow(t, 2))

\* HermiteSection.get_radius_function: r_func(x)
HermiteRadius(self, x) ==
    LET dx == FSub(self.params.end_x, self.params.start_x)
        t == FDiv(FSub(x, self.params.start_x), dx)
    IN  FAdd(FAdd(FAdd(FMul(H00(t), self.params.start_r),
                       FMul(FMul(H10(t), dx), self.start_slope)),
                  FMul(H01(t), self.params.end_r)),
             FMul(FMul(H11(t), dx), self.end_slope))

\* section.get_radius_function()(x), by the class of the section
RadiusFunction(self, x) ==
    CASE self.kind = "Linear" -> LinearRadius(self, x)
      [] self.kind = "CircularArc" -> CircularArcRadius(self, x)
      [] self.kind = "Parabolic" -> ParabolicRadius(self, x)
      [] self.kind = "Hermite" -> HermiteRadius(self, x)

\* NozzleSection.generate_points
GeneratePoints(self) ==
    IF self.params.n_points < 0 THEN Raised("ValueError")
    ELSE LET x == Linspace(self.params.start_x, self.params.end_x,
                           self.params.n_points)
         IN  [status |-> "ok", x |-> x,
              r |-> [k \in 1 .. Len(x) |-> RadiusFunction(self, x[k])]]

\* NozzleParameters
NozzleParameters(throat, exit, chamber, throat_position) ==
    [throat_radius |-> I(throat), exit_radius |-> I(exit),
     chamber_radius |-> I(chamber), throat_position |-> I(throat_position)]

\* Nozzle.__init__
Nozzle(params) == [params |-> params, sections |-> <<>>]

\* list.insert(pos, e) for pos >= 0: a position past the end appends
InsertAt(s, pos, e) ==
    LET p == IF pos > Len(s) THEN Len(s) ELSE pos
    IN  SubSeq(s, 1, p) \o <<e>> \o SubSeq(s, p + 1, Len(s))

\* Nozzle.add_section
AddSection(self, section) ==
    [self EXCEPT !.sections = Append(@, section)]

\* Nozzle.add_converging_section
AddConvergingSection(self, section) ==
    [self EXCEPT !.sections = InsertAt(@, 0, section)]

\* the mutated position: the throat section always goes to the front
ThroatInsertPosFront(sections) == 0

\* insert_pos = 1 if len(self.sections) > 0 else 0
ThroatInsertPos(sections) == IF Len(sections) > 0 THEN 1 ELSE 0

\* Nozzle.add_throat_section
AddThroatSection(self, section) ==
    [self EXCEPT !.sections = InsertAt(@, ThroatInsertPos(@), section)]

\* Nozzle.add_diverging_section
AddDivergingSection(self, section) ==
    [self EXCEPT !.sections = Append(@, section)]

\* np.concatenate(arrays) from the i-th array on
RECURSIVE Concatenate(_, _)
Concatenate(arrays, i) ==
    IF i > Len(arrays) THEN <<>> ELSE arrays[i] \o Concatenate(arrays, i + 1)

\* the for loop of Nozzle.generate_contour and the two np.concatenate calls: the
\* points of the sections one after the other, or the exception of the first
\* section that raises; np.concatenate raises ValueError on an empty list
SectionPoints(sections) ==
    Only({ LET failed == {i \in 1 .. Len(pts) : pts[i].status # "ok"}
           IN  IF failed # {}
               THEN pts[CHOOSE i \in failed : \A j \in failed : i <= j]
               ELSE IF Len(pts) = 0 THEN Raised("ValueError")
               ELSE [status |-> "ok",
                     x |-> Concatenate([i \in 1 .. Len(pts) |-> pts[i].x], 1),
                     r |-> Concatenate([i \in 1 .. Len(pts) |-> pts[i].r], 1)] :
           pts \in {[i \in 1 .. Len(sections) |-> GeneratePoints(sections[i])]} })

\* the mutated selection: the last occurrence of every value
LastOccurrences(x) ==
    {i \in 1 .. Len(x) : \A j \in (i + 1) .. Len(x) : x[j] # x[i]}

\* the index of the first occurrence of every value of x
FirstOccurrences(x) ==
    {i \in 1 .. Len(x) : \A j \in 1 .. (i - 1) : x[j] # x[i]}

\* the indices idx left in their own increasing order, the values unsorted
SortByIndex(x, idx) ==
    [k \in 1 .. Cardinality(idx) |->
        CHOOSE i \in idx : Cardinality({j \in idx : j < i}) = k - 1]

\* the indices idx, whose values in x differ, in the increasing order of those
\* values
SortByValue(x, idx) ==
    [k \in 1 .. Cardinality(idx) |->
        CHOOSE i \in idx : Cardinality({j \in idx : FLess(x[j], x[i])}) = k - 1]

\* np.unique(x, return_index=True)[1]: the unique values come sorted, each with
\* the index of its first occurrence
UniqueIndices(x) == SortByValue(x, FirstOccurrences(x))

\* a[indices]
Take(a, indices) == [k \in 1 .. Len(indices) |-> a[indices[k]]]

\* x = x[unique_indices]; r = r[unique_indices]
Deduplicated(x, r) ==
    Only({ [status |-> "ok", x |-> Take(x, unique_indices),
            r |-> Take(r, unique_indices)] :
           unique_indices \in {UniqueIndices(x)} })

\* Nozzle.generate_contour
NozzleGenerateContour(self, remove_duplicates) ==
    Only({ IF pts.status # "ok" THEN pts
           ELSE IF remove_duplicates THEN Deduplicated(pts.x, pts.r)
           ELSE pts :
           pts \in {SectionPoints(self.sections)} })

\* the mutated reversal: the order is kept
ReversedKeepsOrder(s) == s

\* s[::-1]
Reversed(s) == [k \in 1 .. Len(s) |-> s[Len(s) + 1 - k]]

\* x_full, r_full of Nozzle.get_full_section for the contour x, r
Mirrored(x, r) ==
    [status |-> "ok",
     x |-> x \o Reversed(x),
     r |-> r \o [k \in 1 .. Len(r) |-> FNeg(Reversed(r)[k])]]

\* Nozzle.get_full_section
GetFullSection(self) ==
    Only({ IF c.status # "ok" THEN c ELSE Mirrored(c.x, c.r) :
           c \in {NozzleGenerateContour(self, TRUE)} })

----------------------------------------------------------------------------
(* The generators called on a ParabolicNozzle.  A behaviour constructs one *)
(* nozzle and makes one call on it; call and ret record that call, trace   *)
(* the calls made.                                                         *)

Radii == 0 .. MaxRadius
Powers == (-MaxNegPower) .. MaxPower
PointCounts == (-NegPoints) .. MaxPoints

NoConfig == [nozzle |-> EmptySection, sim |-> "none", n_axial |-> 0]
NoCall == [op |-> "none", arg |-> 0]
NoReturn == [status |-> "none"]

Init ==
    /\ \E throat \in Radii, exit \in Radii, chamber \in Radii,
          cpow \in Powers, dpow \in Powers :
          nozzle = ParabolicNozzle(
                       ParabolicNozzleParams(throat, exit, chamber, cpow, dpow))
    /\ call = NoCall
    /\ ret = NoReturn
    /\ cfg = NoConfig
    /\ pc = "idle"
    /\ dirs = <<>>
    /\ files = <<>>
    /\ trace = <<>>
    /\ error = ""

\* a Nozzle holds a list of sections, a ParabolicNozzle does not
IsSectionNozzle(self) == "sections" \in DOMAIN self

\* a generating call that reorders the list of sections it walks through
AfterCallReversesSections(self) ==
    IF IsSectionNozzle(self)
    THEN [self EXCEPT !.sections = Reversed(self.sections)]
    ELSE self

\* the object after a generating call: no statement of generate_contour,
\* get_outer_wall, generate_block_mesh_dict, Nozzle.generate_contour or
\* get_full_section assigns to the nozzle or to one of its sections
AfterCall(self) == self

CallGenerateContour ==
    \E n_points \in PointCounts :
        /\ call = NoCall
        /\ call' = [op |-> "generate_contour", arg |-> n_points]
        /\ ret' = GenerateContour(nozzle, n_points)
        /\ nozzle' = AfterCall(nozzle)
        /\ trace' = Append(trace, "generate_contour")
        /\ UNCHANGED <<cfg, pc, dirs, files, error>>

CallGetOuterWall ==
    \E n_points \in PointCounts :
        /\ call = NoCall
        /\ call' = [op |-> "get_outer_wall", arg |-> n_points]
        /\ ret' = GetOuterWall(nozzle, n_points)
        /\ nozzle' = AfterCall(nozzle)
        /\ trace' = Append(trace, "get_outer_wall")
        /\ UNCHANGED <<cfg, pc, dirs, files, error>>

CallGenerateBlockMeshDict ==
    \E n_points \in PointCounts, choice \in MeshParamChoices :
        /\ call = NoCall
        /\ call' = [op |-> "generate_block_mesh_dict",
                    arg |-> BlockMeshParams(n_points - 1, choice)]
        /\ ret' = GenerateBlockMeshDict(nozzle, BlockMeshParams(n_points - 1, choice))
        /\ nozzle' = AfterCall(nozzle)
        /\ trace' = Append(trace, "generate_block_mesh_dict")
        /\ UNCHANGED <<cfg, pc, dirs, files, error>>

\* the call made last, made once more with the same arguments
RepeatCall ==
    /\ call # NoCall
    /\ Len(trace) = 1
    /\ ret' = CASE call.op = "generate_contour" -> GenerateContour(nozzle, call.arg)
                [] call.op = "get_outer_wall" -> GetOuterWall(nozzle, call.arg)
                [] call.op = "generate_block_mesh_dict" ->
                      GenerateBlockMeshDict(nozzle, call.arg)
    /\ nozzle' = AfterCall(nozzle)
    /\ trace' = Append(trace, call.op)
    /\ UNCHANGED <<call, cfg, pc, dirs, files, error>>

Next ==
    \/ CallGenerateContour
    \/ CallGetOuterWall
    \/ CallGenerateBlockMeshDict

Spec == Init /\ [][Next]_vars

----------------------------------------------------------------------------
(* CaseBuilder.build, one action per statement that can raise or write.    *)
(* The configurations drawn name both shape powers: the defaults 0.6 and   *)
(* 0.8 are outside the integer powers of the model.                        *)

NozzleSections ==
    {EmptySection} \cup
    { NozzleSection(type, throat, exit, chamber, power) :
        type \in {"", "parabolic", "conical"},
        throat \in {Absent} \cup Radii, exit \in {Absent} \cup Radii,
        chamber \in {Absent} \cup Radii, power \in 1 .. MaxPower }

\* the section of simulation_config.yaml that is missing, "none" when all are there
SimMissing == {"none", "controls", "numerical_schemes", "solver_settings"}

Configs ==
    [nozzle : NozzleSections, sim : SimMissing, n_axial : {0, 1, MaxBuildAxial}]

\* ConfigLoader.get_block_mesh_params, the other fields at their defaults
GetBlockMeshParams(config) ==
    BlockMeshParams(config.n_axial,
        [n_radial |-> 50, axial_grading |-> 1, radial_grading |-> 1])

InitBuild ==
    /\ cfg \in Configs
    /\ nozzle = NoNozzle
    /\ call = NoCall
    /\ ret = NoReturn
    /\ pc = "idle"
    /\ dirs = <<>>
    /\ files = <<>>
    /\ trace = <<>>
    /\ error = ""

Fail(kind) == pc' = "failed" /\ error' = kind

\* a client validating the configuration before it builds (nozzle_config.py, __main__)
ClientValidateConfig ==
    /\ pc = "idle"
    /\ trace = <<>>
    /\ trace' = Append(trace, "validate_config")
    /\ IF ValidateConfig(cfg).status = "ok"
       THEN UNCHANGED <<pc, error>>
       ELSE Fail(ValidateConfig(cfg).status)
    /\ UNCHANGED <<nozzle, call, ret, cfg, dirs, files>>

\* a client asking the loader for the parameters and doing nothing else
ClientGetParabolicNozzleParams ==
    /\ pc = "idle"
    /\ trace = <<>>
    /\ call' = [op |-> "get_parabolic_nozzle_params", arg |-> 0]
    /\ ret' = GetParabolicNozzleParams(cfg)
    /\ trace' = Append(trace, "get_parabolic_nozzle_params")
    /\ pc' = "returned"
    /\ UNCHANGED <<nozzle, cfg, dirs, files, error>>

\* build: self._ensure_dirs(case_path)
BuildEnsureDirs ==
    /\ pc = "idle"
    /\ dirs' = dirs \o <<"0", "constant", "system">>
    /\ pc' = "controlDict"
    /\ UNCHANGED <<nozzle, call, ret, cfg, files, trace, error>>

\* a system/ file whose parameters come from one section of simulation_config.yaml
WriteSimFile(at, section, file, next) ==
    /\ pc = at
    /\ IF cfg.sim = section
       THEN Fail("ValueError") /\ UNCHANGED files
       ELSE files' = Append(files, file) /\ pc' = next /\ UNCHANGED error
    /\ UNCHANGED <<nozzle, call, ret, cfg, dirs, trace>>

BuildControlDict ==
    WriteSimFile("controlDict", "controls", "system/controlDict", "fvSchemes")

BuildFvSchemes ==
    WriteSimFile("fvSchemes", "numerical_schemes", "system/fvSchemes", "fvSolution")

BuildFvSolution ==
    WriteSimFile("fvSolution", "solver_settings", "system/fvSolution", "create_nozzle")

\* build: nozzle = self.noz_loader.create_nozzle()
BuildCreateNozzle ==
    /\ pc = "create_nozzle"
    /\ trace' = Append(trace, "create_nozzle")
    /\ LET made == CreateNozzle(cfg)
       IN  IF made.status = "ok"
           THEN nozzle' = made.nozzle /\ pc' = "blockMeshDict" /\ UNCHANGED error
           ELSE Fail(made.status) /\ UNCHANGED nozzle
    /\ UNCHANGED <<call, ret, cfg, dirs, files>>

\* build: bm_params = ...; write_text(generate_block_mesh_dict(nozzle, bm_params))
BuildBlockMeshDict ==
    /\ pc = "blockMeshDict"
    /\ trace' = Append(trace, "generate_block_mesh_dict")
    /\ call' = [op |-> "generate_block_mesh_dict", arg |-> GetBlockMeshParams(cfg)]
    /\ ret' = GenerateBlockMeshDict(nozzle, GetBlockMeshParams(cfg))
    /\ IF ret'.status = "ok"
       THEN /\ files' = Append(files, "system/blockMeshDict")
            /\ pc' = "turbulenceProperties"
            /\ UNCHANGED error
       ELSE Fail(ret'.status) /\ UNCHANGED files
    /\ UNCHANGED <<nozzle, cfg, dirs>>

\* build: self.sim_loader.get_turbulence_properties_params(): ConfigLoader has no
\* such method
BuildTurbulenceProperties ==
    /\ pc = "turbulenceProperties"
    /\ Fail("AttributeError")
    /\ UNCHANGED <<nozzle, call, ret, cfg, dirs, files, trace>>

BuildNext ==
    \/ ClientValidateConfig
    \/ ClientGetParabolicNozzleParams
    \/ BuildEnsureDirs
    \/ BuildControlDict
    \/ BuildFvSchemes
    \/ BuildFvSolution
    \/ BuildCreateNozzle
    \/ BuildBlockMeshDict
    \/ BuildTurbulenceProperties

SpecBuild == InitBuild /\ [][BuildNext]_vars

----------------------------------------------------------------------------
(* Sections and the Nozzle that composes them.  A behaviour either         *)
(* constructs one section and samples it, or adds sections to one Nozzle   *)
(* and then makes one call that generates its contour.                     *)

Slopes == {-1, 0, 1}

\* the constructor calls a behaviour can make: the class and its arguments
SectionRequests ==
    LET P == { SectionParameters(I(start_x), I(end_x), I(start_r), I(end_r),
                                 n_points) :
                 start_x \in 0 .. MaxX, end_x \in 0 .. MaxX,
                 start_r \in 1 .. MaxRadius, end_r \in 1 .. MaxRadius,
                 n_points \in 2 .. MaxSectionPoints }
    IN  { [kind |-> "Linear", params |-> p] : p \in P }
        \cup { [kind |-> "CircularArc", params |-> p,
                radius_of_curvature |-> R, convex |-> cv] :
                 p \in P, R \in 1 .. MaxRadius, cv \in BOOLEAN }
        \cup { [kind |-> "Parabolic", params |-> p, curvature |-> c] :
                 p \in P, c \in Powers }
        \cup { [kind |-> "Hermite", params |-> p,
                start_slope |-> s, end_slope |-> e] :
                 p \in P, s \in Slopes, e \in Slopes }

\* the constructor call of a request
NewSection(req) ==
    CASE req.kind = "Linear" -> LinearSection(req.params)
      [] req.kind = "CircularArc" ->
            CircularArcSection(req.params, req.radius_of_curvature, req.convex)
      [] req.kind = "Parabolic" -> ParabolicSection(req.params, req.curvature)
      [] req.kind = "Hermite" ->
            HermiteSection(req.params, req.start_slope, req.end_slope)

\* the sections a client adds to a Nozzle with its throat at x = 1: one that
\* converges to the throat, two at the throat (the second of zero length), two
\* that diverge from it (the second overlapping the throat sections)
ConvergingChoices ==
    { LinearSection(SectionParameters(I(0), I(1), I(3), I(1), 3)).section }

ThroatChoices ==
    { CircularArcSection(SectionParameters(I(1), I(2), I(1), I(1), 3),
                         1, TRUE).section,
      ParabolicSection(SectionParameters(I(1), I(1), I(1), I(2), 2), 1).section }

DivergingChoices ==
    { HermiteSection(SectionParameters(I(2), I(3), I(1), I(3), 3), 0, 1).section,
      LinearSection(SectionParameters(I(1), I(3), I(2), I(3), 3)).section }

\* the sections a client adds with add_section
AnyChoices ==
    { LinearSection(SectionParameters(I(0), I(1), I(3), I(1), 3)).section,
      LinearSection(SectionParameters(I(1), I(3), I(2), I(3), 3)).section }

InitNozzle ==
    /\ nozzle = Nozzle(NozzleParameters(1, 3, 3, 1))
    /\ call = NoCall
    /\ ret = NoReturn
    /\ cfg = NoConfig
    /\ pc = "idle"
    /\ dirs = <<>>
    /\ files = <<>>
    /\ trace = <<>>
    /\ error = ""

\* section = <Class>(params, ...); section.generate_points()
NewSectionGeneratePoints ==
    /\ call = NoCall
    /\ \E req \in SectionRequests :
          /\ call' = [op |-> "generate_points", arg |-> req]
          /\ ret' = IF NewSection(req).status # "ok"
                    THEN Raised(NewSection(req).status)
                    ELSE GeneratePoints(NewSection(req).section)
    /\ trace' = Append(trace, "generate_points")
    /\ UNCHANGED <<nozzle, cfg, pc, dirs, files, error>>

\* one of the four calls that add a section to the Nozzle
Adding(op, section, added) ==
    /\ ret = NoReturn
    /\ Len(nozzle.sections) < MaxSections
    /\ nozzle' = added
    /\ call' = [op |-> op, arg |-> section]
    /\ trace' = Append(trace, op)
    /\ UNCHANGED <<ret, cfg, pc, dirs, files, error>>

CallAddSection ==
    \E section \in AnyChoices :
        Adding("add_section", section, AddSection(nozzle, section))

CallAddConvergingSection ==
    \E section \in ConvergingChoices :
        Adding("add_converging_section", section,
               AddConvergingSection(nozzle, section))

CallAddThroatSection ==
    \E section \in ThroatChoices :
        Adding("add_throat_section", section, AddThroatSection(nozzle, section))

CallAddDivergingSection ==
    \E section \in DivergingChoices :
        Adding("add_diverging_section", section,
               AddDivergingSection(nozzle, section))

CallNozzleGenerateContour ==
    \E remove_duplicates \in BOOLEAN :
        /\ ret = NoReturn
        /\ call' = [op |-> "Nozzle.generate_contour", arg |-> remove_duplicates]
        /\ ret' = NozzleGenerateContour(nozzle, remove_duplicates)
        /\ nozzle' = AfterCall(nozzle)
        /\ trace' = Append(trace, "Nozzle.generate_contour")
        /\ UNCHANGED <<cfg, pc, dirs, files, error>>

CallGetFullSection ==
    /\ ret = NoReturn
    /\ call' = [op |-> "get_full_section", arg |-> 0]
    /\ ret' = GetFullSection(nozzle)
    /\ nozzle' = AfterCall(nozzle)
    /\ trace' = Append(trace, "get_full_section")
    /\ UNCHANGED <<cfg, pc, dirs, files, error>>

\* the generating call made last, made once more with the same arguments
RepeatNozzleCall ==
    /\ call.op \in {"Nozzle.generate_contour", "get_full_section"}
    /\ Len(trace) >= 1
    /\ trace[Len(trace)] = call.op
    /\ Len(trace) >= 2 => trace[Len(trace) - 1] # call.op
    /\ ret' = IF call.op = "get_full_section" THEN GetFullSection(nozzle)
              ELSE NozzleGenerateContour(nozzle, call.arg)
    /\ nozzle' = AfterCall(nozzle)
    /\ trace' = Append(trace, call.op)
    /\ UNCHANGED <<call, cfg, pc, dirs, files, error>>

NozzleNext ==
    \/ NewSectionGeneratePoints
    \/ CallAddSection
    \/ CallAddConvergingSection
    \/ CallAddThroatSection
    \/ CallAddDivergingSection
    \/ CallNozzleGenerateContour
    \/ CallGetFullSection

SpecNozzle == InitNozzle /\ [][NozzleNext]_vars

\* the generators of both kinds of nozzle: a behaviour works on a ParabolicNozzle
\* or on a Nozzle, and may make its generating call a second time
GeneratorsNext ==
    \/ ~IsSectionNozzle(nozzle) /\ Next
    \/ ~IsSectionNozzle(nozzle) /\ RepeatCall
    \/ IsSectionNozzle(nozzle) /\ NozzleNext
    \/ IsSectionNozzle(nozzle) /\ RepeatNozzleCall

SpecGenerators == (Init \/ InitNozzle) /\ [][GeneratorsNext]_vars

----------------------------------------------------------------------------
(* Properties of the contour engine and the mesh builder *)

IsContourCall == call.op \in {"generate_contour", "get_outer_wall"}
IsMeshCall == call.op = "generate_block_mesh_dict"

\* 0 < throat_radius < exit_radius and throat_radius < chamber_radius
ValidRadii(self) ==
    /\ FLess(I(0), self.params.throat_radius)
    /\ FLess(self.params.throat_radius, self.params.exit_radius)
    /\ FLess(self.params.throat_radius, self.params.chamber_radius)

PositivePowers(self) ==
    self.params.convergent_power > 0 /\ self.params.divergent_power > 0

\* the stations of a contour that lie at axial position 0
ThroatStations(c) == {k \in 1 .. Len(c.x) : c.x[k] = I(0)}

\* C1: for n_axial >= 1 and a valid nozzle (valid radii, positive powers) the
\* mesh has n_axial blocks, 4 * (n_axial + 1) vertices, one inlet face, one
\* outlet face and n_axial faces in each of wall, wedge0 and wedge1.
C1_MeshCounts ==
    (IsMeshCall /\ call.arg.n_axial >= 1
        /\ ValidRadii(nozzle) /\ PositivePowers(nozzle)) =>
        /\ ret.status = "ok"
        /\ Len(ret.blocks) = call.arg.n_axial
        /\ Len(ret.verts) = 4 * (call.arg.n_axial + 1)
        /\ Len(ret.inlet) = 1
        /\ Len(ret.outlet) = 1
        /\ Len(ret.wall) = call.arg.n_axial
        /\ Len(ret.wedge0) = call.arg.n_axial
        /\ Len(ret.wedge1) = call.arg.n_axial

\* C2: generate_contour(n_points) and get_outer_wall(n_points) return exactly
\* n_points axial positions and n_points radii, for every n_points >= 2.
C2_ContourLength ==
    (IsContourCall /\ call.arg >= 2) =>
        /\ ret.status = "ok"
        /\ Len(ret.x) = call.arg
        /\ Len(ret.r) = call.arg

\* C3: for valid radii, positive powers and n_points >= 3 the contour has a
\* station at x = 0 with radius throat_radius, starts at chamber_radius and ends
\* at exit_radius.
C3_ThroatAndEnds ==
    (call.op = "generate_contour" /\ call.arg >= 3
        /\ ValidRadii(nozzle) /\ PositivePowers(nozzle)) =>
        /\ ret.status = "ok"
        /\ Len(ret.r) >= 1
        /\ \E k \in ThroatStations(ret) : ret.r[k] = nozzle.params.throat_radius
        /\ ret.r[1] = nozzle.params.chamber_radius
        /\ ret.r[Len(ret.r)] = nozzle.params.exit_radius

\* C4: for valid radii and n_points >= 2 the axial positions of the contour are
\* strictly increasing, and x = 0 occurs at most once.
C4_StrictlyIncreasing ==
    (call.op = "generate_contour" /\ call.arg >= 2 /\ ValidRadii(nozzle)) =>
        /\ ret.status = "ok"
        /\ \A k \in 1 .. (Len(ret.x) - 1) : FLess(ret.x[k], ret.x[k + 1])
        /\ Cardinality(ThroatStations(ret)) <= 1

\* a contour of a valid nozzle with stations on both sides of the seam at x = 0
C4_Witness ==
    /\ call.op = "generate_contour"
    /\ ValidRadii(nozzle)
    /\ PositivePowers(nozzle)
    /\ ret.status = "ok"
    /\ \E k \in ThroatStations(ret) : 1 < k /\ k + 1 < Len(ret.x)

\* C5: for valid radii and positive powers the radii do not increase up to the
\* station at x = 0 and do not decrease after it, so the minimum radius is
\* throat_radius, attained at x = 0.  Stated for n_points >= 3.
C5_ThroatIsMinimum ==
    (call.op = "generate_contour" /\ call.arg >= 3
        /\ ValidRadii(nozzle) /\ PositivePowers(nozzle)) =>
        /\ ret.status = "ok"
        /\ \E k \in ThroatStations(ret) :
              /\ ret.r[k] = nozzle.params.throat_radius
              /\ \A j \in 1 .. (k - 1) : FLeq(ret.r[j + 1], ret.r[j])
              /\ \A j \in k .. (Len(ret.r) - 1) : FLeq(ret.r[j], ret.r[j + 1])
              /\ \A j \in 1 .. Len(ret.r) : FLeq(ret.r[k], ret.r[j])

\* the index arrays the mesh of the last call was built from
CallWedgePoints ==
    LET c == GetOuterWall(nozzle, call.arg.n_axial + 1)
    IN  WedgePoints(c.x, c.r)

\* u is the plane-1 vertex of the station and role (axis or wall) of plane-0 vertex v
PlaneSwap(wp, v, u) ==
    \E k \in 1 .. Len(wp.a0) :
        \/ v = wp.a0[k] /\ u = wp.a1[k]
        \/ v = wp.w0[k] /\ u = wp.w1[k]

\* C6: for every segment the wedge1 face is the wedge0 face reversed, every
\* plane-0 vertex replaced by its plane-1 counterpart, up to a cyclic rotation.
C6_WedgeMirror ==
    (IsMeshCall /\ ret.status = "ok") =>
        LET wp == CallWedgePoints
        IN  /\ Len(ret.wedge1) = Len(ret.wedge0)
            /\ \A i \in 1 .. Len(ret.wedge0) :
                  \E rot \in 0 .. 3 :
                      \A j \in 1 .. 4 :
                          PlaneSwap(wp, ret.wedge0[i][5 - j],
                                    ret.wedge1[i][((j - 1 + rot) % 4) + 1])

\* a returned mesh with several segments
C6_Witness ==
    /\ IsMeshCall
    /\ ValidRadii(nozzle)
    /\ PositivePowers(nozzle)
    /\ ret.status = "ok"
    /\ Len(ret.wedge0) >= 2
    /\ Len(ret.wedge1) >= 2

\* C7: generate_block_mesh_dict raises whenever n_axial < 1 and never returns a
\* description with zero blocks.  Stated for valid radii and positive powers.
C7_NoEmptyMesh ==
    (IsMeshCall /\ ValidRadii(nozzle) /\ PositivePowers(nozzle)) =>
        /\ call.arg.n_axial < 1 => ret.status # "ok"
        /\ ret.status = "ok" => Len(ret.blocks) >= 1

\* the axial coordinate of the vertex with (0-based) index v
VertexX(m, v) == m.verts[v + 1][1]

\* C8: no returned mesh has a block that joins two stations with the same axial
\* position: such input raises.  Stated for 0 < throat_radius < chamber_radius,
\* throat_radius <= exit_radius and positive powers.
C8_NoZeroLengthBlock ==
    (IsMeshCall /\ ret.status = "ok" /\ PositivePowers(nozzle)
        /\ FLess(I(0), nozzle.params.throat_radius)
        /\ FLess(nozzle.params.throat_radius, nozzle.params.chamber_radius)
        /\ FLeq(nozzle.params.throat_radius, nozzle.params.exit_radius)) =>
        \A i \in 1 .. Len(ret.blocks) :
            VertexX(ret, ret.blocks[i].v[1]) # VertexX(ret, ret.blocks[i].v[2])

\* C9: generate_contour raises, and returns no contour, whenever
\* convergent_power <= 0 or divergent_power <= 0.  Stated for valid radii and
\* n_points >= 5, where both branches hold a station with t = 0.
C9_NonPositivePowerRaises ==
    (call.op = "generate_contour" /\ call.arg >= 5
        /\ ValidRadii(nozzle) /\ ~PositivePowers(nozzle)) =>
        ret.status # "ok"

----------------------------------------------------------------------------
(* Properties of CaseBuilder.build *)

Called(name) == \E i \in 1 .. Len(trace) : trace[i] = name
Written(file) == \E i \in 1 .. Len(files) : files[i] = file

\* a parabolic configuration with all radii given and a positive throat_radius,
\* in which throat_radius >= exit_radius or throat_radius >= chamber_radius
RadiiRejected(config) ==
    /\ {"type", "throat_radius", "exit_radius", "chamber_radius"}
           \subseteq DOMAIN config.nozzle
    /\ config.nozzle["type"] = "parabolic"
    /\ config.nozzle["throat_radius"] > 0
    /\ \/ config.nozzle["throat_radius"] >= config.nozzle["exit_radius"]
       \/ config.nozzle["throat_radius"] >= config.nozzle["chamber_radius"]

\* C10: build validates the nozzle configuration before it generates anything:
\* for a configuration with throat_radius >= exit_radius or throat_radius >=
\* chamber_radius, generate_block_mesh_dict is never called and no blockMeshDict
\* is written.  Stated for block_mesh.n_axial >= 1.
C10_ValidatedBeforeMesh ==
    (RadiiRejected(cfg) /\ cfg.n_axial >= 1) =>
        /\ ~Called("generate_block_mesh_dict")
        /\ ~Written("system/blockMeshDict")

----------------------------------------------------------------------------
(* Properties of the section container *)

AddOps ==
    {"add_section", "add_converging_section", "add_throat_section",
     "add_diverging_section"}

\* the 1-based place of the section that op adds to a list of len sections
ExpectedPlace(op, len) ==
    CASE op \in {"add_section", "add_diverging_section"} -> len + 1
      [] op = "add_converging_section" -> 1
      [] op = "add_throat_section" -> IF len = 0 THEN 1 ELSE 2

\* C11: add_section and add_diverging_section put the new section last,
\* add_converging_section puts it first, add_throat_section puts it second in a
\* non-empty container and first in an empty one; every such call lengthens the
\* container by exactly one and keeps the sections already present in their
\* relative order.
C11_InsertPositions ==
    [][\A op \in AddOps :
          trace' = Append(trace, op) =>
              LET old == nozzle.sections
                  new == nozzle'.sections
                  at == ExpectedPlace(op, Len(old))
              IN  /\ Len(new) = Len(old) + 1
                  /\ new[at] = call'.arg
                  /\ \A i \in 1 .. Len(old) :
                        new[IF i < at THEN i ELSE i + 1] = old[i]]_vars

\* a throat section just inserted second into a container that held two sections
C11_Witness ==
    /\ call.op = "add_throat_section"
    /\ ret = NoReturn
    /\ Len(nozzle.sections) = 3
    /\ nozzle.sections[2] = call.arg
    /\ nozzle.sections[1] # call.arg
    /\ nozzle.sections[3] # nozzle.sections[1]

\* C12: after any sequence of add_converging_section, add_throat_section and
\* add_diverging_section calls, every throat section lies after every converging
\* section and before every diverging section of Nozzle.sections.
C12_ThroatBetween ==
    (~\E k \in 1 .. Len(trace) : trace[k] \in {"add_section", "generate_points"}) =>
        \A i \in 1 .. Len(nozzle.sections), j \in 1 .. Len(nozzle.sections) :
            nozzle.sections[i] \in ThroatChoices =>
                /\ nozzle.sections[j] \in ConvergingChoices => j < i
                /\ nozzle.sections[j] \in DivergingChoices => i < j

----------------------------------------------------------------------------
(* Properties of the composed contour *)

\* the indices idx in increasing order
Ascending(idx) ==
    [k \in 1 .. Cardinality(idx) |->
        CHOOSE i \in idx : Cardinality({j \in idx : j < i}) = k - 1]

\* the indices of x whose value occurs at no earlier index
NotSeenBefore(x) == {i \in 1 .. Len(x) : \A j \in 1 .. (i - 1) : x[j] # x[i]}

IsDedupCall ==
    /\ call.op = "Nozzle.generate_contour"
    /\ call.arg = TRUE
    /\ Len(nozzle.sections) >= 1

C14_MirroredHalves ==
    call.op = "get_full_section" =>
        LET c == NozzleGenerateContour(nozzle, TRUE)
            n == Len(c.x)
        IN  /\ ret.status = c.status
            /\ ret.status = "ok" =>
                  /\ Len(ret.x) = 2 * n
                  /\ Len(ret.r) = 2 * n
                  /\ \A k \in 1 .. n :
                        /\ ret.x[k] = c.x[k]
                        /\ ret.r[k] = c.r[k]
                        /\ ret.x[n + k] = c.x[n + 1 - k]
                        /\ ret.r[n + k] = FNeg(c.r[n + 1 - k])

\* a full section of a contour with at least three points and a non-zero radius
C14_Witness ==
    /\ call.op = "get_full_section"
    /\ ret.status = "ok"
    /\ Len(ret.x) >= 6
    /\ ret.x[1] # ret.x[Len(ret.x) \div 2]
    /\ \E k \in 1 .. Len(ret.r) : IsFinite(ret.r[k]) /\ ret.r[k] # I(0)

----------------------------------------------------------------------------
(* Properties of the section shapes *)

\* the LinearSection from (start_x, start_r) to (end_x, end_r)
LinearBetween(start_x, end_x, start_r, end_r) ==
    LinearSection(SectionParameters(start_x, end_x, start_r, end_r, 2)).section

IsSectionCall(kind) == call.op = "generate_points" /\ call.arg.kind = kind

\* C16: for every start_slope and end_slope and every start_x < end_x the radius
\* function of a HermiteSection is exactly start_r at start_x and exactly end_r
\* at end_x, and so are the first and the last radius it samples.
C16_HermiteEndpoints ==
    (IsSectionCall("Hermite")
        /\ FLess(call.arg.params.start_x, call.arg.params.end_x)) =>
        LET self == NewSection(call.arg).section
        IN  /\ HermiteRadius(self, self.params.start_x) = self.params.start_r
            /\ HermiteRadius(self, self.params.end_x) = self.params.end_r
            /\ ret.status = "ok"
            /\ ret.r[1] = self.params.start_r
            /\ ret.r[Len(ret.r)] = self.params.end_r

\* a sampled HermiteSection with non-zero slopes and different end radii
C16_Witness ==
    /\ IsSectionCall("Hermite")
    /\ FLess(call.arg.params.start_x, call.arg.params.end_x)
    /\ call.arg.start_slope # 0
    /\ call.arg.end_slope # 0
    /\ call.arg.params.start_r # call.arg.params.end_r
    /\ ret.status = "ok"
    /\ Len(ret.r) >= 3

\* C17: sampling a CircularArcSection raises, and returns no radii, whenever
\* radius_of_curvature < c / 2 for the chord c = sqrt(dx ** 2 + dr ** 2).  Stated
\* for start_x < end_x.
C17_SmallCurvatureRaises ==
    (IsSectionCall("CircularArc")
        /\ FLess(call.arg.params.start_x, call.arg.params.end_x)) =>
        LET dx == FSub(call.arg.params.end_x, call.arg.params.start_x)
            dr == FSub(call.arg.params.end_r, call.arg.params.start_r)
            R_c == I(call.arg.radius_of_curvature)
        IN  FLess(FMul(I(4), FMul(R_c, R_c)), FAdd(FMul(dx, dx), FMul(dr, dr)))
                => ret.status # "ok"

\* the sections of s that have start_x = end_x
ZeroLength(s) == {i \in 1 .. Len(s) : s[i].params.start_x = s[i].params.end_x}

\* C18: constructing or sampling a section with start_x = end_x raises for every
\* class of section, and Nozzle.generate_contour returns no contour when one of
\* its sections has start_x = end_x.
C18_ZeroLengthRaises ==
    /\ (call.op = "generate_points"
           /\ call.arg.params.start_x = call.arg.params.end_x) =>
           ret.status # "ok"
    /\ (call.op = "Nozzle.generate_contour"
           /\ ZeroLength(nozzle.sections) # {}) =>
           ret.status # "ok"

----------------------------------------------------------------------------
(* Properties of the configuration loader and of a complete build *)

\* C19: get_parabolic_nozzle_params raises ValueError, and no other kind of
\* error, when the nozzle section is absent or empty, when its type is not
\* 'parabolic', or when throat_radius, exit_radius or chamber_radius is missing;
\* in every other case it returns the parameters.
C19_OnlyValueError ==
    call.op = "get_parabolic_nozzle_params" =>
        LET section == cfg.nozzle
            rejected ==
                \/ DOMAIN section = {}
                \/ "type" \in DOMAIN section /\ section["type"] # "parabolic"
                \/ ~({"throat_radius", "exit_radius", "chamber_radius"}
                        \subseteq DOMAIN section)
        IN  ret.status = IF rejected THEN "ValueError" ELSE "ok"

\* a case whose configuration files hold every section, with valid values
ValidCase(config) ==
    /\ config.sim = "none"
    /\ config.n_axial >= 1
    /\ ValidateConfig(config).status = "ok"
    /\ config.nozzle["type"] = "parabolic"
    /\ config.nozzle["throat_radius"] > 0

\* the files of a complete case, in the order build writes them
CaseFiles ==
    <<"system/controlDict", "system/fvSchemes", "system/fvSolution",
      "system/blockMeshDict", "constant/turbulenceProperties",
      "constant/thermophysicalProperties">>

\* C20: for a valid case build raises nothing, writes the files of CaseFiles in
\* that order and writes every file only after the directories 0, constant and
\* system exist.
C20_BuildCompletes ==
    ValidCase(cfg) =>
        /\ error = ""
        /\ pc # "failed"
        /\ Len(files) <= Len(CaseFiles)
        /\ files = SubSeq(CaseFiles, 1, Len(files))
        /\ files # <<>> => dirs = <<"0", "constant", "system">>
-----------------------------------------------------------------------------
(* Contour and mesh generation leave the nozzle alone.                     *)

PureOps ==
    {"generate_contour", "generate_block_mesh_dict",
     "Nozzle.generate_contour", "get_full_section"}

-----------------------------------------------------------------------------
(* The wedge mesh, station by station.  Stations, segments and blocks are  *)
(* counted from 1 here and from 0 in the source: station k of the source   *)
(* is station k + 1 below; vertex indices count from 0 as in the source.   *)

Range(s) == {s[k] : k \in 1 .. Len(s)}

\* the four vertex indices of station k of the index arrays wp
StationVertices(wp, k) == {wp.a0[k], wp.w0[k], wp.a1[k], wp.w1[k]}

\* C23: station k (from 0) contributes the indices 4k, 4k+1, 4k+2, 4k+3 as
\* axis-p0, wall-p0, axis-p1, wall-p1; each index array has one entry per
\* station and together the four arrays partition 0 .. 4*stations - 1
C23_StationIndices ==
    IsMeshCall =>
        \A c \in {GetOuterWall(nozzle, call.arg.n_axial + 1)} :
            c.status = "ok" =>
              \A wp \in {WedgePoints(c.x, c.r)} :
              LET n == Len(c.x)
              IN  /\ Len(wp.a0) = n /\ Len(wp.w0) = n
                  /\ Len(wp.a1) = n /\ Len(wp.w1) = n
                  /\ \A k \in 1 .. n :
                        /\ wp.a0[k] = 4 * (k - 1)
                        /\ wp.w0[k] = 4 * (k - 1) + 1
                        /\ wp.a1[k] = 4 * (k - 1) + 2
                        /\ wp.w1[k] = 4 * (k - 1) + 3
                  /\ Range(wp.a0) \cup Range(wp.w0) \cup Range(wp.a1)
                        \cup Range(wp.w1) = 0 .. (4 * n - 1)
                  /\ Cardinality(Range(wp.a0)) + Cardinality(Range(wp.w0))
                        + Cardinality(Range(wp.a1)) + Cardinality(Range(wp.w1))
                        = 4 * n
                  /\ Len(wp.verts) = 4 * n

\* a mesh of at least three stations
C23_Witness ==
    /\ IsMeshCall
    /\ ret.status = "ok"
    /\ Len(ret.verts) >= 12
    /\ Len(CallWedgePoints.a0) >= 3

\* C22: block i, for i from 0 to stations - 2 in increasing order, lists the
\* vertices axis-p0[i], axis-p0[i+1], wall-p0[i+1], wall-p0[i], axis-p1[i],
\* axis-p1[i+1], wall-p1[i+1], wall-p1[i] in that order, with cell counts
\* (1, n_radial, 1) and grading (axial_grading, radial_grading, 1), and no
\* vertex of a station other than i and i+1
C22_BlockVertices ==
    (IsMeshCall /\ ret.status = "ok") =>
        \A wp \in {CallWedgePoints} :
        LET n == Len(wp.a0)
        IN  /\ Len(ret.blocks) = n - 1
            /\ \A i \in 1 .. (n - 1) :
                  /\ ret.blocks[i].v =
                        <<wp.a0[i], wp.a0[i + 1], wp.w0[i + 1], wp.w0[i],
                          wp.a1[i], wp.a1[i + 1], wp.w1[i + 1], wp.w1[i]>>
                  /\ ret.blocks[i].cells = <<1, call.arg.n_radial, 1>>
                  /\ ret.blocks[i].grading =
                        <<call.arg.axial_grading, call.arg.radial_grading, 1>>
                  /\ \A k \in (1 .. n) \ {i, i + 1} :
                        Range(ret.blocks[i].v) \cap StationVertices(wp, k) = {}

\* a mesh of at least three blocks, with gradings other than 1
C22_Witness ==
    /\ IsMeshCall
    /\ ret.status = "ok"
    /\ Len(ret.blocks) >= 3
    /\ call.arg.axial_grading # 1
    /\ call.arg.radial_grading # call.arg.axial_grading

\* the vertex indices used by the faces of a boundary group
GroupVertices(faces) == UNION {Range(faces[f]) : f \in 1 .. Len(faces)}

\* C24: the inlet group holds exactly one face, on the four vertices of
\* station 0, and the outlet group exactly one face, on the four vertices of the
\* last station; no vertex of another station occurs in either group
C24_InletOutletFaces ==
    (IsMeshCall /\ ret.status = "ok") =>
        \A wp \in {CallWedgePoints} :
        LET n == Len(wp.a0)
        IN  /\ Len(ret.inlet) = 1
            /\ Len(ret.inlet[1]) = 4
            /\ Range(ret.inlet[1]) = StationVertices(wp, 1)
            /\ Len(ret.outlet) = 1
            /\ Len(ret.outlet[1]) = 4
            /\ Range(ret.outlet[1]) = StationVertices(wp, n)
            /\ \A k \in 2 .. (n - 1) :
                  (GroupVertices(ret.inlet) \cup GroupVertices(ret.outlet))
                      \cap StationVertices(wp, k) = {}
            /\ n > 1 => /\ GroupVertices(ret.inlet) \cap StationVertices(wp, n) = {}
                        /\ GroupVertices(ret.outlet) \cap StationVertices(wp, 1) = {}

\* a mesh with stations between the first and the last
C24_Witness ==
    /\ IsMeshCall
    /\ ret.status = "ok"
    /\ Len(ret.verts) >= 16
    /\ Len(ret.inlet) = 1
    /\ Len(ret.outlet) = 1
    /\ ret.inlet[1] # ret.outlet[1]

\* C25: the wall group holds, for each segment i in increasing order, exactly
\* one face (wall-p0[i], wall-p0[i+1], wall-p1[i+1], wall-p1[i]); no axis vertex
\* is in a wall face; the wedge0 and the wedge1 face of segment i use only axis
\* and wall vertices of stations i and i+1 on their own plane
C25_WallAndWedgeFaces ==
    (IsMeshCall /\ ret.status = "ok") =>
        \A wp \in {CallWedgePoints} :
        LET n == Len(wp.a0)
        IN  /\ Len(ret.wall) = n - 1
            /\ Len(ret.wedge0) = n - 1
            /\ Len(ret.wedge1) = n - 1
            /\ \A i \in 1 .. (n - 1) :
                  /\ ret.wall[i] =
                        <<wp.w0[i], wp.w0[i + 1], wp.w1[i + 1], wp.w1[i]>>
                  /\ Range(ret.wedge0[i]) \subseteq
                        {wp.a0[i], wp.a0[i + 1], wp.w0[i], wp.w0[i + 1]}
                  /\ Range(ret.wedge1[i]) \subseteq
                        {wp.a1[i], wp.a1[i + 1], wp.w1[i], wp.w1[i + 1]}
            /\ GroupVertices(ret.wall) \cap (Range(wp.a0) \cup Range(wp.a1)) = {}

\* a mesh of at least two segments
C25_Witness ==
    /\ IsMeshCall
    /\ ret.status = "ok"
    /\ Len(ret.wall) >= 2
    /\ Len(ret.wedge0) >= 2
    /\ Len(ret.wedge1) = Len(ret.wall)

\* every boundary face of a mesh description, whatever its group
BoundaryFaces(m) ==
    Range(m.inlet) \cup Range(m.outlet) \cup Range(m.wall)
        \cup Range(m.wedge0) \cup Range(m.wedge1)

\* C26: in every returned mesh each vertex index of a block or of a boundary
\* face is in 0 .. number of vertices - 1, the 8 indices of a block are pairwise
\* distinct and the 4 indices of a face are pairwise distinct
C26_IndicesValid ==
    (IsMeshCall /\ ret.status = "ok") =>
        /\ \A i \in 1 .. Len(ret.blocks) :
              /\ Len(ret.blocks[i].v) = 8
              /\ Range(ret.blocks[i].v) \subseteq 0 .. (Len(ret.verts) - 1)
              /\ Cardinality(Range(ret.blocks[i].v)) = 8
        /\ \A f \in BoundaryFaces(ret) :
              /\ Len(f) = 4
              /\ Range(f) \subseteq 0 .. (Len(ret.verts) - 1)
              /\ Cardinality(Range(f)) = 4

\* a mesh with blocks and faces in every group
C26_Witness ==
    /\ IsMeshCall
    /\ ret.status = "ok"
    /\ Len(ret.blocks) >= 2
    /\ Cardinality(BoundaryFaces(ret)) >= 8

\* C27: in a returned mesh with at least one block the wall, wedge0 and wedge1
\* face of segment i take their four vertices from the eight of block i, the
\* inlet face from the first block and the outlet face from the last block, and
\* no two listed boundary faces, of one group or of two, have the same vertex set
C27_FacesOnBlocks ==
    (IsMeshCall /\ ret.status = "ok" /\ Len(ret.blocks) >= 1) =>
        LET nb == Len(ret.blocks)
        IN  /\ Len(ret.wall) = nb /\ Len(ret.wedge0) = nb /\ Len(ret.wedge1) = nb
            /\ \A i \in 1 .. nb :
                  /\ Range(ret.wall[i]) \subseteq Range(ret.blocks[i].v)
                  /\ Range(ret.wedge0[i]) \subseteq Range(ret.blocks[i].v)
                  /\ Range(ret.wedge1[i]) \subseteq Range(ret.blocks[i].v)
            /\ \A f \in 1 .. Len(ret.inlet) :
                  Range(ret.inlet[f]) \subseteq Range(ret.blocks[1].v)
            /\ \A f \in 1 .. Len(ret.outlet) :
                  Range(ret.outlet[f]) \subseteq Range(ret.blocks[nb].v)
            /\ Cardinality({Range(f) : f \in BoundaryFaces(ret)}) =
                  Len(ret.inlet) + Len(ret.outlet) + Len(ret.wall)
                      + Len(ret.wedge0) + Len(ret.wedge1)

\* a mesh of several blocks, so that inlet and outlet lie on different blocks
C27_Witness ==
    /\ IsMeshCall
    /\ ret.status = "ok"
    /\ Len(ret.blocks) >= 2
    /\ Len(ret.inlet) + Len(ret.outlet) = 2

\* C28: two consecutive blocks i and i+1 have exactly the four vertices of
\* station i+1 in common and two blocks that are not consecutive have none, so
\* the blocks form one axial chain
C28_BlockChain ==
    (IsMeshCall /\ ret.status = "ok") =>
        \A wp \in {CallWedgePoints} :
        LET nb == Len(ret.blocks)
        IN  \A i \in 1 .. nb : \A j \in (i + 1) .. nb :
                Range(ret.blocks[i].v) \cap Range(ret.blocks[j].v) =
                    IF j = i + 1 THEN StationVertices(wp, i + 1) ELSE {}

\* a mesh with consecutive and with non-consecutive blocks
C28_Witness ==
    /\ IsMeshCall
    /\ ret.status = "ok"
    /\ Len(ret.blocks) >= 4
    /\ Cardinality(StationVertices(CallWedgePoints, 2)) = 4

\* the coordinates (x, y, z) of vertex index v of mesh description m
VertexAt(m, v) == m.verts[v + 1]

\* the axis-side face of segment i: the axis vertices of stations i and i+1
AxisFace(wp, i) == {wp.a0[i], wp.a0[i + 1], wp.a1[i + 1], wp.a1[i]}

\* C29: at every station the axis vertices of plane 0 and of plane 1 have
\* different indices and the same coordinates (x, 0, 0), and the two wall
\* vertices have that x, the same y and opposite z; so the vertex list holds
\* coincident points, and the axis-side face of every block (axis-p0[i],
\* axis-p0[i+1], axis-p1[i+1], axis-p1[i]) lies on the axis, covers at most two
\* different points and is listed in no boundary group
C29_AxisCollapsed ==
    (IsMeshCall /\ ret.status = "ok") =>
        \A wp \in {CallWedgePoints} :
        LET n == Len(wp.a0)
        IN  /\ \A k \in 1 .. n :
                  LET a0 == VertexAt(ret, wp.a0[k])
                      a1 == VertexAt(ret, wp.a1[k])
                      w0 == VertexAt(ret, wp.w0[k])
                      w1 == VertexAt(ret, wp.w1[k])
                  IN  /\ wp.a0[k] # wp.a1[k]
                      /\ a0 = a1
                      /\ a0 = <<w0[1], I(0), I(0)>>
                      /\ w0[1] = w1[1]
                      /\ w0[2] = w1[2]
                      /\ w0[3] = FNeg(w1[3])
            /\ \E u \in 1 .. Len(ret.verts), v \in 1 .. Len(ret.verts) :
                  u # v /\ ret.verts[u] = ret.verts[v]
            /\ \A i \in 1 .. Len(ret.blocks) :
                  /\ AxisFace(wp, i) \subseteq Range(ret.blocks[i].v)
                  /\ \A v \in AxisFace(wp, i) :
                        VertexAt(ret, v)[2] = I(0) /\ VertexAt(ret, v)[3] = I(0)
                  /\ Cardinality({VertexAt(ret, v) : v \in AxisFace(wp, i)}) <= 2
                  /\ \A f \in BoundaryFaces(ret) : Range(f) # AxisFace(wp, i)

\* a mesh of several blocks whose wall lies off the axis
C29_Witness ==
    /\ IsMeshCall
    /\ ret.status = "ok"
    /\ Len(ret.blocks) >= 2
    /\ \E v \in 1 .. Len(ret.verts) :
          IsFinite(ret.verts[v][3]) /\ FLess(I(0), ret.verts[v][3])

-----------------------------------------------------------------------------
(* The two modes of Nozzle.generate_contour *)

\* the number of points of the sections before position s of the container
RECURSIVE PointsBefore(_, _)
PointsBefore(sections, s) ==
    IF s = 1 THEN 0
    ELSE PointsBefore(sections, s - 1) + sections[s - 1].params.n_points

\* C30: with remove_duplicates=True, Nozzle.generate_contour returns strictly
\* increasing axial positions, none repeated, whatever the order of insertion
\* and the overlap of the sections, each with a radius that was sampled
\* together with that axial position; with remove_duplicates=False the result
\* has as many points as the sections' n_points add up to, in container order
C30_ContourModes ==
    (call.op = "Nozzle.generate_contour" /\ Len(nozzle.sections) >= 1) =>
        /\ ret.status = "ok"
        /\ Len(ret.r) = Len(ret.x)
        /\ call.arg =>
              LET pts == SectionPoints(nozzle.sections)
              IN  /\ \A k \in 1 .. (Len(ret.x) - 1) : FLess(ret.x[k], ret.x[k + 1])
                  /\ \A k \in 1 .. Len(ret.x), l \in 1 .. Len(ret.x) :
                        k # l => ret.x[k] # ret.x[l]
                  /\ \A k \in 1 .. Len(ret.x) :
                        \E i \in 1 .. Len(pts.x) :
                            pts.x[i] = ret.x[k] /\ pts.r[i] = ret.r[k]
        /\ ~call.arg =>
              /\ Len(ret.x) =
                    PointsBefore(nozzle.sections, Len(nozzle.sections) + 1)
              /\ \A s \in 1 .. Len(nozzle.sections) :
                    LET sec == GeneratePoints(nozzle.sections[s])
                        before == PointsBefore(nozzle.sections, s)
                    IN  /\ Len(sec.x) = nozzle.sections[s].params.n_points
                        /\ \A k \in 1 .. Len(sec.x) :
                              /\ ret.x[before + k] = sec.x[k]
                              /\ ret.r[before + k] = sec.r[k]

\* a deduplicated contour of three sections that were not inserted in axial
\* order and that share axial positions
C30_Witness ==
    /\ call.op = "Nozzle.generate_contour"
    /\ call.arg
    /\ ret.status = "ok"
    /\ Len(nozzle.sections) = 3
    /\ FLess(nozzle.sections[2].params.start_x, nozzle.sections[1].params.start_x)
    /\ Len(ret.x) < PointsBefore(nozzle.sections, 4)
====
